---- MODULE Spec2Model ----
(***************************************************************************)
(* Model of package logmonkey (timurgen/go-async-logger): named loggers,   *)
(* each with a bounded message channel drained by one listen() goroutine,  *)
(* a process-wide registry `loggers`, and FlushAllLoggers.                 *)
(*                                                                         *)
(* Threads are the goroutines of the application that call the package's   *)
(* API; every API call is split at the points where the Go code reads or   *)
(* writes shared state, so that the interleavings of the unsynchronised    *)
(* code are the behaviours of the model.                                   *)
(***************************************************************************)
EXTENDS Integers, Sequences, FiniteSets, TLC

----------------------------------------------------------------------------
(* Bounds of the model. *)

\* Logger instances GetLogger may allocate in one behaviour.
MaxLoggers == 2

\* Log calls made in one behaviour.
MaxCalls == 3

\* FlushAllLoggers invocations in one behaviour.
MaxFlushes == 2

\* SetLevel, SetFormatter and SetAppender calls in one behaviour.
MaxSets == 1

\* Capacity of messageChannel. The program's value is 1024; the model runs
\* the same code with a small capacity so that a full channel is reachable.
LoggerBufferSize == 2

\* time.Millisecond, the number of Duration units (ns) in a millisecond, and
\* the factor of GracefulLoggerShutdownTimeMc: 10^6 and 100 in the program,
\* scaled down here. The clock of the model has a resolution of 1 ms.
Millisecond == 2
GraceFactor == 1

Threads == {"t1", "t2"}
Names == {"a", "b"}
Messages == {"m"}
Formatters == {"default", "json"}
Appenders == {"console", "other"}

----------------------------------------------------------------------------
(* Levels. *)

TRACE == 0
DEBUG == 1
INFO == 2
WARNING == 3
ERROR == 4

LogLevel == {TRACE, DEBUG, INFO, WARNING, ERROR}

\* The levels Log is called with: one below and one at the default threshold.
CallLevels == {DEBUG, INFO}

\* func (l LogLevel) String() string
String(l) ==
    CASE l = TRACE -> "TRACE"
      [] l = DEBUG -> "DEBUG"
      [] l = INFO -> "INFO"
      [] l = WARNING -> "WARNING"
      [] l = ERROR -> "ERROR"
      [] OTHER -> ""

GracefulLoggerShutdownTimeMc == GraceFactor * Millisecond

----------------------------------------------------------------------------
(* Strings produced by the program. *)

\* fmt.Sprintf(message, obj...): the template with its argument interpolated.
Sprintf(message, n) == [text |-> message, arg |-> n]

QueueFullText == Sprintf("logger queue is full", 0)
InterruptedText(count) ==
    Sprintf("Logger was interrupted with %d messages in queue", count)

\* LogFormatter.FormatMessage: both formatters render the timestamp, the
\* logger name, the level's name and the message; they differ in layout.
\* The rendered timestamp is left out of the model's strings: the program
\* never reads it back.
FormatMessage(f, message, name, l) ==
    [layout |-> f, name |-> name, level |-> String(l), message |-> message]

NoStr == [layout |-> "", name |-> "", level |-> "", message |-> Sprintf("", 0)]

\* One LogAppender.ConsumeMessage(str) invocation: the appender invoked, the
\* string it was given and the goroutine that made the call.
Consumption(a, str, who) == [app |-> a, str |-> str, by |-> who]

----------------------------------------------------------------------------
(* State. *)

Nil == 0
Ids == 1..MaxLoggers

VARIABLES
    loggers,        \* the registry: name -> Logger pointer (Nil: no entry)
    allocated,      \* number of Logger structures allocated (pointers 1..allocated)
    lname,          \* Logger.name
    level,          \* Logger.level
    appender,       \* Logger.appender
    formatter,      \* Logger.formatter
    messageChannel, \* Logger.messageChannel: the buffered strings, oldest first
    started,        \* number of listen() goroutines started for each Logger
    wpc,            \* position of each Logger's listen() goroutine
    wstr,           \* listen(): the string received from messageChannel
    consumed,       \* per Logger, the ConsumeMessage invocations made for it
    enqueued,       \* history: per Logger, the strings sent into messageChannel
    calls,          \* history: number of Log calls made
    filtered,       \* history: number of Log calls that returned at the level check
    flushes,        \* history: number of FlushAllLoggers invocations
    sets,           \* history: number of setter calls
    pc,             \* position of each thread in the API call it is making
    ref,            \* the Logger pointer each thread holds (from GetLogger)
    gname,          \* GetLogger: the name argument
    lmsg,           \* Log: formattedMessage
    fl,             \* FlushAllLoggers: its local variables
    bufferSize,     \* cap(messageChannel): the LoggerBufferSize of the build
    conv,           \* a level/name conversion: its argument and result
    installed,      \* history: per Logger, the appender installed at each send
    stopk,          \* history: per Logger, len(messageChannel) when the stop
                    \* signal was received
    dropped         \* history: the messages whose Log call took the default
                    \* case of the select

heapVars == <<allocated, lname, level, appender, formatter>>
workerVars == <<started, wpc, wstr>>
histVars == <<calls, filtered, flushes, sets>>
auxVars == <<bufferSize, conv, installed, stopk, dropped>>
vars == <<loggers, allocated, lname, level, appender, formatter,
          messageChannel, started, wpc, wstr, consumed, enqueued, calls,
          filtered, flushes, sets, pc, ref, gname, lmsg, fl, bufferSize,
          conv, installed, stopk, dropped>>

\* Locals of a thread that is not inside FlushAllLoggers.
\* (seen and atStart are history: the number of strings sent to the Logger
\* so far when its queue was found empty, and the Loggers registered when
\* the call started.)
NoFlush == [elapsed |-> 0, timeToWait |-> 0, todo |-> {}, name |-> "",
            logger |-> Nil, seen |-> 0, atStart |-> {}]

Registered == {n \in Names : loggers[n] # Nil}

\* No conversion under way.
NoConv == [stage |-> "none", name |-> <<>>, level |-> 0, str |-> "",
           back |-> 0]

\* The state after package initialisation, with channels of capacity size.
Boot(size) ==
    /\ bufferSize = size
    /\ installed = [i \in Ids |-> <<>>]
    /\ stopk = [i \in Ids |-> 0]
    /\ dropped = {}
    /\ loggers = [n \in Names |-> Nil]
    /\ allocated = 0
    /\ lname = [i \in Ids |-> ""]
    /\ level = [i \in Ids |-> INFO]
    /\ appender = [i \in Ids |-> "console"]
    /\ formatter = [i \in Ids |-> "default"]
    /\ messageChannel = [i \in Ids |-> <<>>]
    /\ started = [i \in Ids |-> 0]
    /\ wpc = [i \in Ids |-> "none"]
    /\ wstr = [i \in Ids |-> NoStr]
    /\ consumed = [i \in Ids |-> <<>>]
    /\ enqueued = [i \in Ids |-> <<>>]
    /\ calls = 0
    /\ filtered = 0
    /\ flushes = 0
    /\ sets = 0
    /\ pc = [c \in Threads |-> "idle"]
    /\ ref = [c \in Threads |-> Nil]
    /\ gname = [c \in Threads |-> ""]
    /\ lmsg = [c \in Threads |-> NoStr]
    /\ fl = [c \in Threads |-> NoFlush]

Init == Boot(LoggerBufferSize) /\ conv = NoConv

----------------------------------------------------------------------------
(* Channel operations on messageChannel (a buffered chan string). *)

\* len(ch)
ChanLen(ch) == Len(ch)

\* Mutant: the capacity test is off by one.
ChanCanSendOverCapacity(ch) == Len(ch) <= bufferSize

\* A send can proceed without blocking: the buffer has room.
ChanCanSend(ch) == Len(ch) < bufferSize

\* Mutant: the channel hands out the newest string first.
ChanSendFront(ch, str) == <<str>> \o ch

\* ch <- str
ChanSend(ch, str) == Append(ch, str)

\* A receive can proceed: the buffer holds a string.
ChanCanRecv(ch) == Len(ch) > 0

\* <-ch: the string received and the buffer left.
ChanRecvValue(ch) == Head(ch)

\* Mutant: a receive leaves the string in the buffer.
ChanRecvRestKeep(ch) == ch

ChanRecvRest(ch) == Tail(ch)

----------------------------------------------------------------------------
(* func (log *Logger) listen(): the worker goroutine of Logger i. *)

\* case str := <-log.messageChannel
WorkerReceive(i) ==
    /\ wpc[i] = "select"
    /\ ChanCanRecv(messageChannel[i])
    /\ wstr' = [wstr EXCEPT ![i] = ChanRecvValue(messageChannel[i])]
    /\ messageChannel' = [messageChannel EXCEPT ![i] = ChanRecvRest(@)]
    /\ wpc' = [wpc EXCEPT ![i] = "consume"]
    /\ UNCHANGED <<loggers, heapVars, started, consumed, enqueued, histVars,
                   pc, ref, gname, lmsg, fl>>
    /\ UNCHANGED auxVars

\* Mutant: the worker takes the string off the queue and loses it.
WorkerConsumeLost(i) ==
    /\ wpc[i] = "consume"
    /\ wstr' = [wstr EXCEPT ![i] = NoStr]
    /\ wpc' = [wpc EXCEPT ![i] = "select"]
    /\ UNCHANGED <<loggers, heapVars, messageChannel, started, consumed,
                   enqueued, histVars, pc, ref, gname, lmsg, fl>>
    /\ UNCHANGED auxVars

\* log.appender.ConsumeMessage(str), with the appender installed at this moment
WorkerConsume(i) ==
    /\ wpc[i] = "consume"
    /\ consumed' = [consumed EXCEPT
                      ![i] = Append(@, Consumption(appender[i], wstr[i], "worker"))]
    /\ wstr' = [wstr EXCEPT ![i] = NoStr]
    /\ wpc' = [wpc EXCEPT ![i] = "select"]
    /\ UNCHANGED <<loggers, heapVars, messageChannel, started, enqueued,
                   histVars, pc, ref, gname, lmsg, fl>>
    /\ UNCHANGED auxVars

\* case closes := <-log.closed: closed is unbuffered, so the receive is a
\* rendezvous with one thread blocked in `logger.closed <- true`, which
\* goes on to its delete.
WorkerClosed(i) ==
    /\ wpc[i] = "select"
    /\ \E c \in Threads :
         /\ pc[c] = "fl_send"
         /\ fl[c].logger = i
         /\ pc' = [pc EXCEPT ![c] = "fl_delete"]
    /\ wpc' = [wpc EXCEPT ![i] = "closing"]
    /\ UNCHANGED <<loggers, heapVars, messageChannel, started, wstr, consumed,
                   enqueued, histVars, ref, gname, lmsg, fl>>
    /\ stopk' = [stopk EXCEPT ![i] = ChanLen(messageChannel[i])]
    /\ UNCHANGED <<bufferSize, conv, installed, dropped>>

\* Mutant: the worker returns without looking at the queue.
WorkerInterruptedSilent(i) ==
    /\ wpc[i] = "closing"
    /\ wpc' = [wpc EXCEPT ![i] = "done"]
    /\ UNCHANGED <<loggers, heapVars, messageChannel, started, wstr, consumed,
                   enqueued, histVars, pc, ref, gname, lmsg, fl>>
    /\ UNCHANGED auxVars

\* if len(log.messageChannel) > 0 { ... }; return
WorkerInterrupted(i) ==
    /\ wpc[i] = "closing"
    /\ wpc' = [wpc EXCEPT
                 ![i] = IF ChanLen(messageChannel[i]) > 0 THEN "warn" ELSE "done"]
    /\ UNCHANGED <<loggers, heapVars, messageChannel, started, wstr, consumed,
                   enqueued, histVars, pc, ref, gname, lmsg, fl>>
    /\ UNCHANGED auxVars

\* count := len(...); the WARNING message is formatted and consumed; return
WorkerWarn(i) ==
    /\ wpc[i] = "warn"
    /\ LET count == ChanLen(messageChannel[i])
           str == FormatMessage(formatter[i], InterruptedText(count), lname[i],
                                WARNING)
       IN consumed' = [consumed EXCEPT
                         ![i] = Append(@, Consumption(appender[i], str, "worker"))]
    /\ wpc' = [wpc EXCEPT ![i] = "done"]
    /\ UNCHANGED <<loggers, heapVars, messageChannel, started, wstr, enqueued,
                   histVars, pc, ref, gname, lmsg, fl>>
    /\ UNCHANGED auxVars

----------------------------------------------------------------------------
(* func (log *Logger) Log(message, level, obj...), called by thread c on   *)
(* the Logger it holds.                                                    *)

\* Mutant: the comparison is inverted.
BelowThresholdInverted(i, l) == level[i] < l

\* if log.level > level { return }
BelowThreshold(i, l) == level[i] > l

\* The level check, then ts := time.Now() and the two formatting calls. The
\* caller numbers its messages, as the sample driver does: the k-th Log call
\* of a behaviour logs message m with argument k.
LogBegin(c, m, l) ==
    /\ pc[c] = "idle"
    /\ ref[c] # Nil
    /\ calls < MaxCalls
    /\ calls' = calls + 1
    /\ IF BelowThreshold(ref[c], l)
       THEN /\ filtered' = filtered + 1
            /\ UNCHANGED <<lmsg, pc>>
       ELSE /\ lmsg' = [lmsg EXCEPT
                          ![c] = FormatMessage(formatter[ref[c]], Sprintf(m, calls'),
                                               lname[ref[c]], l)]
            /\ pc' = [pc EXCEPT ![c] = "log_select"]
            /\ UNCHANGED filtered
    /\ UNCHANGED <<loggers, heapVars, messageChannel, workerVars, consumed,
                   enqueued, flushes, sets, ref, gname, fl>>
    /\ UNCHANGED auxVars

\* Mutant: a plain send, without the default case, which waits for room.
LogSelectBlocking(c) ==
    /\ pc[c] = "log_select"
    /\ ChanCanSend(messageChannel[ref[c]])
    /\ messageChannel' = [messageChannel EXCEPT ![ref[c]] = ChanSend(@, lmsg[c])]
    /\ enqueued' = [enqueued EXCEPT ![ref[c]] = Append(@, lmsg[c])]
    /\ lmsg' = [lmsg EXCEPT ![c] = NoStr]
    /\ pc' = [pc EXCEPT ![c] = "idle"]
    /\ UNCHANGED <<loggers, heapVars, workerVars, consumed, histVars,
                   ref, gname, fl>>
    /\ installed' = [installed EXCEPT ![ref[c]] = Append(@, appender[ref[c]])]
    /\ UNCHANGED <<bufferSize, conv, stopk, dropped>>

\* select { case log.messageChannel <- formattedMessage: ... default: ... }
LogSelect(c) ==
    /\ pc[c] = "log_select"
    /\ IF ChanCanSend(messageChannel[ref[c]])
       THEN /\ messageChannel' = [messageChannel EXCEPT
                                    ![ref[c]] = ChanSend(@, lmsg[c])]
            /\ enqueued' = [enqueued EXCEPT ![ref[c]] = Append(@, lmsg[c])]
            /\ installed' = [installed EXCEPT
                               ![ref[c]] = Append(@, appender[ref[c]])]
            /\ lmsg' = [lmsg EXCEPT ![c] = NoStr]
            /\ pc' = [pc EXCEPT ![c] = "idle"]
       ELSE /\ pc' = [pc EXCEPT ![c] = "log_full"]
            /\ UNCHANGED <<messageChannel, enqueued, installed, lmsg>>
    /\ UNCHANGED <<loggers, heapVars, workerVars, consumed, histVars,
                   ref, gname, fl>>
    /\ UNCHANGED <<bufferSize, conv, stopk, dropped>>

\* Mutant: the default case drops the message without telling the appender.
LogQueueFullSilent(c) ==
    /\ pc[c] = "log_full"
    /\ lmsg' = [lmsg EXCEPT ![c] = NoStr]
    /\ pc' = [pc EXCEPT ![c] = "idle"]
    /\ UNCHANGED <<loggers, heapVars, messageChannel, workerVars, consumed,
                   enqueued, histVars, ref, gname, fl>>
    /\ UNCHANGED auxVars

\* Mutant: after the diagnostic the default case hands the caller's own
\* message to the appender as well.
LogQueueFullAndMessage(c) ==
    /\ pc[c] = "log_full"
    /\ LET i == ref[c]
           channelFullMsg == FormatMessage(formatter[i], QueueFullText, lname[i],
                                           ERROR)
       IN consumed' = [consumed EXCEPT
                         ![i] = Append(Append(@, Consumption(appender[i],
                                                             channelFullMsg,
                                                             "caller")),
                                       Consumption(appender[i], lmsg[c],
                                                   "caller"))]
    /\ dropped' = dropped \cup {[str |-> lmsg[c], logger |-> ref[c],
                                  at |-> Len(consumed[ref[c]]) + 1]}
    /\ lmsg' = [lmsg EXCEPT ![c] = NoStr]
    /\ pc' = [pc EXCEPT ![c] = "idle"]
    /\ UNCHANGED <<loggers, heapVars, messageChannel, workerVars, enqueued,
                   histVars, ref, gname, fl>>
    /\ UNCHANGED <<bufferSize, conv, installed, stopk>>

\* default: the queue-full message, formatted at ERROR level, goes straight
\* to the appender on the caller's thread.
LogQueueFull(c) ==
    /\ pc[c] = "log_full"
    /\ LET i == ref[c]
           channelFullMsg == FormatMessage(formatter[i], QueueFullText, lname[i],
                                           ERROR)
       IN consumed' = [consumed EXCEPT
                         ![i] = Append(@, Consumption(appender[i], channelFullMsg,
                                                      "caller"))]
    /\ dropped' = dropped \cup {[str |-> lmsg[c], logger |-> ref[c],
                                  at |-> Len(consumed[ref[c]]) + 1]}
    /\ lmsg' = [lmsg EXCEPT ![c] = NoStr]
    /\ pc' = [pc EXCEPT ![c] = "idle"]
    /\ UNCHANGED <<loggers, heapVars, messageChannel, workerVars, enqueued,
                   histVars, ref, gname, fl>>
    /\ UNCHANGED <<bufferSize, conv, installed, stopk>>

----------------------------------------------------------------------------
(* The setters, called by thread c on the Logger it holds. *)

SetLevel(c, l) ==
    /\ pc[c] = "idle"
    /\ ref[c] # Nil
    /\ sets < MaxSets
    /\ sets' = sets + 1
    /\ level' = [level EXCEPT ![ref[c]] = l]
    /\ UNCHANGED <<loggers, allocated, lname, appender, formatter,
                   messageChannel, workerVars, consumed, enqueued, calls,
                   filtered, flushes, pc, ref, gname, lmsg, fl>>
    /\ UNCHANGED auxVars

\* Mutant: the new formatter is applied to the strings in the queue.
SetFormatterReformat(c, f) ==
    /\ pc[c] = "idle"
    /\ ref[c] # Nil
    /\ sets < MaxSets
    /\ sets' = sets + 1
    /\ formatter' = [formatter EXCEPT ![ref[c]] = f]
    /\ messageChannel' =
          [messageChannel EXCEPT
             ![ref[c]] = [k \in DOMAIN @ |-> [@[k] EXCEPT !.layout = f]]]
    /\ UNCHANGED <<loggers, allocated, lname, level, appender,
                   workerVars, consumed, enqueued, calls,
                   filtered, flushes, pc, ref, gname, lmsg, fl>>
    /\ UNCHANGED auxVars

SetFormatter(c, f) ==
    /\ pc[c] = "idle"
    /\ ref[c] # Nil
    /\ sets < MaxSets
    /\ sets' = sets + 1
    /\ formatter' = [formatter EXCEPT ![ref[c]] = f]
    /\ UNCHANGED <<loggers, allocated, lname, level, appender,
                   messageChannel, workerVars, consumed, enqueued, calls,
                   filtered, flushes, pc, ref, gname, lmsg, fl>>
    /\ UNCHANGED auxVars

SetAppender(c, a) ==
    /\ pc[c] = "idle"
    /\ ref[c] # Nil
    /\ sets < MaxSets
    /\ sets' = sets + 1
    /\ appender' = [appender EXCEPT ![ref[c]] = a]
    /\ UNCHANGED <<loggers, allocated, lname, level, formatter,
                   messageChannel, workerVars, consumed, enqueued, calls,
                   filtered, flushes, pc, ref, gname, lmsg, fl>>
    /\ UNCHANGED auxVars

----------------------------------------------------------------------------
(* func GetLogger(name string) *Logger *)

\* Allocations still open to a thread that finds no entry.
CanAllocate ==
    allocated + Cardinality({d \in Threads : pc[d] = "get_create"}) < MaxLoggers

\* Mutant: the lookup never finds the entry.
GetLoggerLookupMiss(c, n) ==
    /\ pc[c] = "idle"
    /\ CanAllocate
    /\ gname' = [gname EXCEPT ![c] = n]
    /\ pc' = [pc EXCEPT ![c] = "get_create"]
    /\ UNCHANGED <<loggers, heapVars, messageChannel, workerVars, consumed,
                   enqueued, histVars, ref, lmsg, fl>>
    /\ UNCHANGED auxVars

\* if _, ok := loggers[name]; !ok
GetLoggerLookup(c, n) ==
    /\ pc[c] = "idle"
    /\ loggers[n] # Nil \/ CanAllocate
    /\ gname' = [gname EXCEPT ![c] = n]
    /\ pc' = [pc EXCEPT ![c] = IF loggers[n] # Nil THEN "get_return"
                                                   ELSE "get_create"]
    /\ UNCHANGED <<loggers, heapVars, messageChannel, workerVars, consumed,
                   enqueued, histVars, ref, lmsg, fl>>
    /\ UNCHANGED auxVars

\* logger := &Logger{...}; go logger.listen(); loggers[name] = logger
GetLoggerCreate(c) ==
    /\ pc[c] = "get_create"
    /\ LET i == allocated + 1
       IN /\ allocated' = i
          /\ lname' = [lname EXCEPT ![i] = gname[c]]
          /\ level' = [level EXCEPT ![i] = INFO]
          /\ appender' = [appender EXCEPT ![i] = "console"]
          /\ formatter' = [formatter EXCEPT ![i] = "default"]
          /\ messageChannel' = [messageChannel EXCEPT ![i] = <<>>]
          /\ started' = [started EXCEPT ![i] = @ + 1]
          /\ wpc' = [wpc EXCEPT ![i] = "select"]
          /\ loggers' = [loggers EXCEPT ![gname[c]] = i]
    /\ pc' = [pc EXCEPT ![c] = "get_return"]
    /\ UNCHANGED <<wstr, consumed, enqueued, histVars, ref, gname, lmsg, fl>>
    /\ UNCHANGED auxVars

\* return loggers[name]
GetLoggerReturn(c) ==
    /\ pc[c] = "get_return"
    /\ ref' = [ref EXCEPT ![c] = loggers[gname[c]]]
    /\ gname' = [gname EXCEPT ![c] = ""]
    /\ pc' = [pc EXCEPT ![c] = "idle"]
    /\ UNCHANGED <<loggers, heapVars, messageChannel, workerVars, consumed,
                   enqueued, histVars, lmsg, fl>>
    /\ UNCHANGED auxVars

----------------------------------------------------------------------------
(* func FlushAllLoggers() *)

\* flushStart := time.Now(); timeToWait := Graceful... * len(loggers)
FlushStart(c) ==
    /\ pc[c] = "idle"
    /\ flushes < MaxFlushes
    /\ flushes' = flushes + 1
    /\ fl' = [fl EXCEPT ![c] = [NoFlush EXCEPT
                 !.elapsed = 0,
                 !.atStart = {loggers[n] : n \in Registered},
                 !.timeToWait = GracefulLoggerShutdownTimeMc * Cardinality(Registered)]]
    /\ pc' = [pc EXCEPT ![c] = "fl_cond"]
    /\ UNCHANGED <<loggers, heapVars, messageChannel, workerVars, consumed,
                   enqueued, calls, filtered, sets, ref, gname, lmsg>>
    /\ UNCHANGED auxVars

\* time.Now().Sub(flushStart): a Duration (ns), from the ms elapsed since
\* the call read flushStart
Sub(f) == f.elapsed * Millisecond

\* Mutant: the loop is entered when the elapsed time equals the budget.
WithinBudgetInclusive(f) == Sub(f) \div Millisecond <= f.timeToWait

\* time.Now().Sub(flushStart)/time.Millisecond < timeToWait
WithinBudget(f) == Sub(f) \div Millisecond < f.timeToWait

\* Mutant: the call gives up at the first evaluation of the loop condition.
FlushCondGiveUp(c) ==
    /\ pc[c] = "fl_cond"
    /\ fl' = [fl EXCEPT ![c] = NoFlush]
    /\ pc' = [pc EXCEPT ![c] = "idle"]
    /\ UNCHANGED <<loggers, heapVars, messageChannel, workerVars, consumed,
                   enqueued, histVars, ref, gname, lmsg>>
    /\ UNCHANGED auxVars

\* The outer loop's condition; when it holds the range over loggers starts.
FlushCond(c) ==
    /\ pc[c] = "fl_cond"
    /\ IF WithinBudget(fl[c])
       THEN /\ fl' = [fl EXCEPT ![c].todo = Registered]
            /\ pc' = [pc EXCEPT ![c] = "fl_scan"]
       ELSE /\ fl' = [fl EXCEPT ![c] = NoFlush]
            /\ pc' = [pc EXCEPT ![c] = "idle"]
    /\ UNCHANGED <<loggers, heapVars, messageChannel, workerVars, consumed,
                   enqueued, histVars, ref, gname, lmsg>>
    /\ UNCHANGED auxVars

\* Mutant: the send does not wait for the worker to receive the signal.
FlushRangeNoRendezvous(c, n) ==
    /\ pc[c] = "fl_scan"
    /\ n \in fl[c].todo
    /\ IF loggers[n] # Nil /\ ChanLen(messageChannel[loggers[n]]) = 0
       THEN /\ fl' = [fl EXCEPT ![c].todo = @ \ {n},
                                ![c].name = n,
                                ![c].logger = loggers[n],
                                ![c].seen = Len(enqueued[loggers[n]])]
            /\ pc' = [pc EXCEPT ![c] = "fl_delete"]
       ELSE /\ fl' = [fl EXCEPT ![c].todo = @ \ {n}]
            /\ UNCHANGED pc
    /\ UNCHANGED <<loggers, heapVars, messageChannel, workerVars, consumed,
                   enqueued, histVars, ref, gname, lmsg>>
    /\ UNCHANGED auxVars

\* Mutant: the stop signal is sent without looking at the queue.
FlushRangeUnchecked(c, n) ==
    /\ pc[c] = "fl_scan"
    /\ n \in fl[c].todo
    /\ IF loggers[n] # Nil
       THEN /\ fl' = [fl EXCEPT ![c].todo = @ \ {n},
                                ![c].name = n,
                                ![c].logger = loggers[n],
                                ![c].seen = Len(enqueued[loggers[n]])]
            /\ pc' = [pc EXCEPT ![c] = "fl_send"]
       ELSE /\ fl' = [fl EXCEPT ![c].todo = @ \ {n}]
            /\ UNCHANGED pc
    /\ UNCHANGED <<loggers, heapVars, messageChannel, workerVars, consumed,
                   enqueued, histVars, ref, gname, lmsg>>
    /\ UNCHANGED auxVars

\* One iteration of `for name, logger := range loggers`, in any order; an
\* entry deleted before it is reached is not produced.
\* if len(logger.messageChannel) == 0 { logger.closed <- true ...
FlushRange(c, n) ==
    /\ pc[c] = "fl_scan"
    /\ n \in fl[c].todo
    /\ IF loggers[n] # Nil /\ ChanLen(messageChannel[loggers[n]]) = 0
       THEN /\ fl' = [fl EXCEPT ![c].todo = @ \ {n},
                                ![c].name = n,
                                ![c].logger = loggers[n],
                                ![c].seen = Len(enqueued[loggers[n]])]
            /\ pc' = [pc EXCEPT ![c] = "fl_send"]
       ELSE /\ fl' = [fl EXCEPT ![c].todo = @ \ {n}]
            /\ UNCHANGED pc
    /\ UNCHANGED <<loggers, heapVars, messageChannel, workerVars, consumed,
                   enqueued, histVars, ref, gname, lmsg>>
    /\ UNCHANGED auxVars

\* Mutant: the stopped Logger stays in the registry.
FlushDeleteKeep(c) ==
    /\ pc[c] = "fl_delete"
    /\ fl' = [fl EXCEPT ![c].name = "", ![c].logger = Nil, ![c].seen = 0]
    /\ pc' = [pc EXCEPT ![c] = "fl_scan"]
    /\ UNCHANGED <<loggers, heapVars, messageChannel, workerVars, consumed,
                   enqueued, histVars, ref, gname, lmsg>>
    /\ UNCHANGED auxVars

\* ... delete(loggers, name) }, once the send has been received
FlushDelete(c) ==
    /\ pc[c] = "fl_delete"
    /\ loggers' = [loggers EXCEPT ![fl[c].name] = Nil]
    /\ fl' = [fl EXCEPT ![c].name = "", ![c].logger = Nil, ![c].seen = 0]
    /\ pc' = [pc EXCEPT ![c] = "fl_scan"]
    /\ UNCHANGED <<heapVars, messageChannel, workerVars, consumed, enqueued,
                   histVars, ref, gname, lmsg>>
    /\ UNCHANGED auxVars

\* The range is over: if len(loggers) == 0 { break }
FlushAfterRange(c) ==
    /\ pc[c] = "fl_scan"
    /\ fl[c].todo = {}
    /\ IF Registered = {}
       THEN /\ fl' = [fl EXCEPT ![c] = NoFlush]
            /\ pc' = [pc EXCEPT ![c] = "idle"]
       ELSE /\ pc' = [pc EXCEPT ![c] = "fl_cond"]
            /\ UNCHANGED fl
    /\ UNCHANGED <<loggers, heapVars, messageChannel, workerVars, consumed,
                   enqueued, histVars, ref, gname, lmsg>>
    /\ UNCHANGED auxVars

----------------------------------------------------------------------------
(* Time. The program reads the clock in Log (a timestamp it only prints)  *)
(* and in FlushAllLoggers, whose loop condition is the one place where the *)
(* passing of time is observed. The clock has a resolution of 1 ms and is  *)
(* kept as the time elapsed since each running FlushAllLoggers call read   *)
(* flushStart; it advances while some call is about to evaluate its loop   *)
(* condition and has budget left.                                          *)

InFlush(c) == pc[c] \in {"fl_cond", "fl_scan", "fl_send", "fl_delete"}

Tick ==
    /\ \E c \in Threads : pc[c] = "fl_cond" /\ WithinBudget(fl[c])
    /\ fl' = [c \in Threads |->
                IF InFlush(c) THEN [fl[c] EXCEPT !.elapsed = @ + 1] ELSE fl[c]]
    /\ UNCHANGED <<loggers, heapVars, messageChannel, workerVars, consumed,
                   enqueued, histVars, pc, ref, gname, lmsg>>
    /\ UNCHANGED auxVars

----------------------------------------------------------------------------
(* Specifications. *)

Worker(i) ==
    \/ WorkerReceive(i)
    \/ WorkerConsume(i)
    \/ WorkerClosed(i)
    \/ WorkerInterrupted(i)
    \/ WorkerWarn(i)

Logging(c) ==
    \/ \E m \in Messages, l \in CallLevels : LogBegin(c, m, l)
    \/ LogSelect(c)
    \/ LogQueueFull(c)

Setting(c) ==
    \/ \E l \in LogLevel : SetLevel(c, l)
    \/ \E f \in Formatters : SetFormatter(c, f)
    \/ \E a \in Appenders : SetAppender(c, a)

Getting(c, names) ==
    \/ \E n \in names : GetLoggerLookup(c, n)
    \/ GetLoggerCreate(c)
    \/ GetLoggerReturn(c)

Flushing(c) ==
    \/ FlushStart(c)
    \/ FlushCond(c)
    \/ \E n \in Names : FlushRange(c, n)
    \/ FlushDelete(c)
    \/ FlushAfterRange(c)

\* The application calls the API from one goroutine, as the sample driver
\* and the tests do; the workers and the clock run concurrently with it.
Main == "t1"

Next ==
    \/ Tick
    \/ \E i \in Ids : Worker(i)
    \/ Logging(Main)
    \/ \E l \in LogLevel : SetLevel(Main, l)
    \/ Getting(Main, Names)
    \/ Flushing(Main)

Spec == Init /\ [][Next]_vars

\* The specifications below let the API calls of the threads overlap, on
\* one logger name.
ConcNames == {"a"}

\* Threads get a logger and log to it while the workers drain the queues.
QueueNext ==
    \/ \E i \in Ids : WorkerReceive(i) \/ WorkerConsume(i)
    \/ \E c \in Threads : Logging(c) \/ Getting(c, ConcNames)

QueueSpec == Init /\ [][QueueNext]_vars

\* The same with the setters.
LogNext ==
    \/ \E i \in Ids : WorkerReceive(i) \/ WorkerConsume(i)
    \/ \E c \in Threads : Logging(c) \/ Setting(c) \/ Getting(c, ConcNames)

LogSpec == Init /\ [][LogNext]_vars

\* Logging overlaps with FlushAllLoggers; the loggers keep their default
\* settings.
ConcNext ==
    \/ Tick
    \/ \E i \in Ids : Worker(i)
    \/ \E c \in Threads : Logging(c) \/ Getting(c, ConcNames) \/ Flushing(c)

ConcSpec == Init /\ [][ConcNext]_vars

----------------------------------------------------------------------------
(* Level names. A Go string is a sequence of characters, written here as a *)
(* sequence of one-character strings; Text gives the string they spell.    *)

\* unicode.ToUpper on the characters used below; any other character
\* (digits, the space, the upper-case letters) is its own upper case.
UpperOf ==
    [a |-> "A", b |-> "B", c |-> "C", d |-> "D", e |-> "E", f |-> "F",
     g |-> "G", i |-> "I", n |-> "N", o |-> "O", r |-> "R", s |-> "S",
     t |-> "T", u |-> "U", w |-> "W"]

\* Mutant: ToUpper leaves its argument as it is.
ToUpperNothing(name) == name

\* strings.ToUpper(name)
ToUpper(name) ==
    [k \in DOMAIN name |->
        IF name[k] \in DOMAIN UpperOf THEN UpperOf[name[k]] ELSE name[k]]

RECURSIVE Text(_)
Text(chars) == IF chars = <<>> THEN "" ELSE Head(chars) \o Text(Tail(chars))

\* nameMap of GetLevelByName
LevelByName ==
    [TRACE |-> TRACE, DEBUG |-> DEBUG, INFO |-> INFO, WARNING |-> WARNING,
     ERROR |-> ERROR]

\* Mutant: a name that is not in the map gives INFO, the default threshold.
GetLevelByNameOrInfo(name) ==
    LET upper == Text(ToUpper(name))
    IN IF upper \in DOMAIN LevelByName THEN LevelByName[upper] ELSE INFO

\* func GetLevelByName(name string) LogLevel; indexing the map with a key it
\* does not hold gives the zero value of LogLevel.
GetLevelByName(name) ==
    LET upper == Text(ToUpper(name))
    IN IF upper \in DOMAIN LevelByName THEN LevelByName[upper] ELSE 0

\* The upper-case spellings of the five levels, lowest level first.
Words ==
    << <<"T", "R", "A", "C", "E">>, <<"D", "E", "B", "U", "G">>,
       <<"I", "N", "F", "O">>, <<"W", "A", "R", "N", "I", "N", "G">>,
       <<"E", "R", "R", "O", "R">> >>

\* Strings that spell no level.
OtherWords ==
    { <<>>, <<"W", "A", "R", "N">>, <<"I", "N", "F">>,
      <<"T", "R", "A", "C", "E", "S">>, <<"E", "R", "R", "0", "R">>,
      <<" ", "I", "N", "F", "O">>, <<"I", "N", "F", "O", " ">>,
      <<"4">>, <<"0">>, <<"O", "F", "F">> }

\* The lower-case form of the upper-case letters of the words above.
LowerOf ==
    [A |-> "a", B |-> "b", C |-> "c", D |-> "d", E |-> "e", F |-> "f",
     G |-> "g", I |-> "i", N |-> "n", O |-> "o", R |-> "r", S |-> "s",
     T |-> "t", U |-> "u", W |-> "w"]

Lower(ch) == IF ch \in DOMAIN LowerOf THEN LowerOf[ch] ELSE ch

\* name is word in some letter-casing.
IsCasingOf(name, word) ==
    /\ Len(name) = Len(word)
    /\ \A k \in 1..Len(word) : name[k] \in {word[k], Lower(word[k])}

\* All letter-casings of a word.
RECURSIVE Casings(_)
Casings(word) ==
    IF word = <<>>
    THEN {<<>>}
    ELSE {<<ch>> \o rest : ch \in {Head(word), Lower(Head(word))},
                           rest \in Casings(Tail(word))}

NameInputs ==
    UNION {Casings(Words[k]) : k \in 1..Len(Words)}
    \cup UNION {Casings(w) : w \in OtherWords}

\* The characters of a string returned by String.
Letters(str) ==
    IF \E k \in 1..Len(Words) : Text(Words[k]) = str
    THEN Words[CHOOSE k \in 1..Len(Words) : Text(Words[k]) = str]
    ELSE <<>>

\* A conversion starts from a name or from a level.
ConvInit ==
    conv \in {[NoConv EXCEPT !.stage = "name", !.name = n] : n \in NameInputs}
             \cup {[NoConv EXCEPT !.stage = "level", !.level = l] : l \in LogLevel}

\* level := GetLevelByName(name) on the name given, or
\* back := GetLevelByName(str) on the string that String returned.
CallGetLevelByName ==
    /\ conv.stage \in {"name", "string"}
    /\ conv' = IF conv.stage = "name"
               THEN [conv EXCEPT !.level = GetLevelByName(conv.name),
                                 !.stage = "named"]
               ELSE [conv EXCEPT !.back = GetLevelByName(Letters(conv.str)),
                                 !.stage = "back"]
    /\ UNCHANGED <<loggers, heapVars, messageChannel, workerVars, consumed,
                   enqueued, histVars, pc, ref, gname, lmsg, fl, bufferSize,
                   installed, stopk, dropped>>

\* str := level.String(), on the level given or on the level that
\* GetLevelByName returned.
CallString ==
    /\ conv.stage \in {"level", "named"}
    /\ conv' = [conv EXCEPT !.str = String(conv.level),
                            !.stage = IF conv.stage = "level" THEN "string"
                                                              ELSE "spelled"]
    /\ UNCHANGED <<loggers, heapVars, messageChannel, workerVars, consumed,
                   enqueued, histVars, pc, ref, gname, lmsg, fl, bufferSize,
                   installed, stopk, dropped>>

NameNext == CallGetLevelByName \/ CallString

NameInit == Boot(LoggerBufferSize) /\ ConvInit

NameSpec == NameInit /\ [][NameNext]_vars

----------------------------------------------------------------------------
\* The scheduler runs every runnable goroutine: a worker that can receive or
\* consume does so, and a caller inside Log finishes its call.
LogFairness ==
    /\ \A i \in Ids : WF_vars(WorkerReceive(i) \/ WorkerConsume(i))
    /\ \A c \in Threads : WF_vars(LogSelect(c) \/ LogQueueFull(c))

FairLogSpec == LogSpec /\ LogFairness

\* The steps of a FlushAllLoggers call after its first.
FlushStep(c) ==
    \/ FlushCond(c)
    \/ \E n \in Names : FlushRange(c, n)
    \/ FlushDelete(c)
    \/ FlushAfterRange(c)

\* The scheduler runs every worker that can take a step and the goroutine
\* that is inside FlushAllLoggers. Nothing is assumed of the clock.
FlushFairness ==
    /\ \A i \in Ids : WF_vars(Worker(i))
    /\ WF_vars(FlushStep(Main))

\* One goroutine gets loggers, logs and flushes; the loggers keep their
\* default settings.
FlushNext ==
    \/ Tick
    \/ \E i \in Ids : Worker(i)
    \/ Logging(Main)
    \/ Getting(Main, Names)
    \/ Flushing(Main)

FairFlushSpec == Init /\ [][FlushNext]_vars /\ FlushFairness

\* A build whose LoggerBufferSize is 1: threads get a logger and log to it
\* while a fairly scheduled worker drains the queue.
OverflowInit == Boot(1) /\ conv = NoConv

OverflowSpec == OverflowInit /\ [][QueueNext]_vars /\ LogFairness

----------------------------------------------------------------------------
(* Properties. *)

IsPrefix(s, t) == Len(s) <= Len(t) /\ s = SubSeq(t, 1, Len(s))

\* The strings the worker of Logger i took from the queue and handed to the
\* appender, in the order of the calls.
Delivered(i) ==
    LET q == SelectSeq(consumed[i],
                       LAMBDA e : e.by = "worker" /\ e.str.message.text \in Messages)
    IN [k \in 1..Len(q) |-> q[k].str]

\* C1: the queue of every Logger holds between 0 and LoggerBufferSize
\* messages in every reachable state, and the select of a Log call that
\* finds the queue at capacity leaves the queue as it is and goes on (to
\* the default case) instead of waiting for room.
C1_QueueWithinCapacity ==
    /\ [](\A i \in Ids : Len(messageChannel[i]) \in 0..LoggerBufferSize)
    /\ [][\A c \in Threads :
            (/\ pc[c] = "log_select"
             /\ pc'[c] # "log_select"
             /\ Len(messageChannel[ref[c]]) = LoggerBufferSize)
            => /\ messageChannel' = messageChannel
               /\ pc'[c] = "log_full"]_vars

\* C1 witness: a Log call found the queue at capacity and went on.
C1_Witness ==
    \E c \in Threads :
        /\ pc[c] = "log_full"
        /\ Len(messageChannel[ref[c]]) = LoggerBufferSize

\* C2: a thread inside Log can always take its next step, whatever the state
\* of the queue and of the worker: the select and the default case are never
\* disabled, so the call returns without waiting.
C2_LogNeverBlocks ==
    \A c \in Threads :
        /\ pc[c] = "log_select" => ENABLED LogSelect(c)
        /\ pc[c] = "log_full" => ENABLED LogQueueFull(c)

\* C2 witness: a Log call reaches its select while the queue is full and the
\* worker has already terminated on a stop signal.
C2_Witness ==
    \E c \in Threads :
        /\ pc[c] = "log_select"
        /\ wpc[ref[c]] = "done"
        /\ Len(messageChannel[ref[c]]) = LoggerBufferSize

\* C3: for every Logger the sequence of queued messages its worker has
\* handed to the appender is a prefix of the sequence of messages enqueued.
C3_DeliveredPrefixOfEnqueued ==
    \A i \in Ids : IsPrefix(Delivered(i), enqueued[i])

\* C3 witness: three messages were enqueued on one Logger by two threads and
\* the worker has delivered two of them.
C3_Witness ==
    \E i \in Ids :
        /\ Len(enqueued[i]) = 3
        /\ Len(Delivered(i)) = 2
        /\ \A c \in Threads : ref[c] = i

\* The ConsumeMessage invocation of the queue-full diagnostic of Logger i.
QueueFullNotice(i) ==
    [app |-> appender[i], by |-> "caller",
     str |-> [layout |-> formatter[i], name |-> lname[i], level |-> "ERROR",
              message |-> [text |-> "logger queue is full", arg |-> 0]]]

\* C4: the select of a Log call that finds the queue holding capacity
\* messages enqueues nothing and invokes no appender; the call then invokes
\* the appender exactly once, on the caller's thread, with the ERROR-level
\* "logger queue is full" message, leaves the queue unchanged and returns.
C4_OverflowDiagnostic ==
    [][\A c \in Threads :
         /\ (/\ pc[c] = "log_select"
             /\ pc'[c] # "log_select"
             /\ Len(messageChannel[ref[c]]) = LoggerBufferSize)
            => /\ pc'[c] = "log_full"
               /\ UNCHANGED <<messageChannel, enqueued, consumed>>
         /\ (pc[c] = "log_full" /\ pc'[c] # "log_full")
            => /\ pc'[c] = "idle"
               /\ consumed' = [consumed EXCEPT
                                 ![ref[c]] = Append(@, QueueFullNotice(ref[c]))]
               /\ UNCHANGED <<messageChannel, enqueued>>]_vars

\* C4 witness: with the queue still at capacity, a Log call has returned
\* after its queue-full diagnostic reached the appender.
C4_Witness ==
    \E i \in Ids :
        /\ Len(messageChannel[i]) = LoggerBufferSize
        /\ Len(consumed[i]) > 0
        /\ consumed[i][Len(consumed[i])] = QueueFullNotice(i)
        /\ \A c \in Threads : pc[c] = "idle"

\* C5: a Log call whose level is strictly below the Logger's threshold
\* changes nothing of the program's state: queue, appender invocations,
\* threshold, formatter, appender, registry, workers and the threads' own
\* variables stay as they are (no string is formatted, no appender invoked).
C5_BelowThresholdNoEffect ==
    [][\A c \in Threads, m \in Messages, l \in LogLevel :
         (ref[c] # Nil /\ l < level[ref[c]] /\ LogBegin(c, m, l))
         => UNCHANGED <<loggers, heapVars, messageChannel, workerVars, consumed,
                        enqueued, pc, ref, gname, lmsg, fl>>]_vars

\* C5 witness: Log calls were made, all of them below the threshold, on a
\* Logger whose threshold was raised, and nothing was queued or consumed.
C5_Witness ==
    /\ filtered = MaxCalls
    /\ calls = filtered
    /\ \E c \in Threads : ref[c] # Nil /\ level[ref[c]] = WARNING
    /\ \A i \in Ids : messageChannel[i] = <<>> /\ consumed[i] = <<>>

RECURSIVE SumLen(_, _)
SumLen(f, n) == IF n = 0 THEN 0 ELSE Len(f[n]) + SumLen(f, n - 1)

\* Appender invocations made so far, over all Loggers.
TotalConsumed == SumLen(consumed, MaxLoggers)

\* Log calls at or above the threshold whose appender invocation is still
\* to come: the caller is inside the call, or the string is in the queue or
\* in the worker's hands.
InFlight ==
    Cardinality({c \in Threads : pc[c] \in {"log_select", "log_full"}})
    + SumLen(messageChannel, MaxLoggers)
    + Cardinality({i \in Ids : wpc[i] = "consume"})

\* C6: on Loggers that are never stopped, a Log call at a level below the
\* threshold leads to no appender invocation and a call at or above the
\* threshold to exactly one: the invocations made plus those still to come
\* always number the calls at or above the threshold, and under a fair
\* scheduler the k-th such call's invocation eventually happens, with no
\* flush ever called.
C6_OneInvocationPerCall ==
    /\ [](TotalConsumed + InFlight = calls - filtered)
    /\ [][\A c \in Threads, m \in Messages, l \in LogLevel :
            (ref[c] # Nil /\ LogBegin(c, m, l))
            => /\ l < level[ref[c]] => filtered' = filtered + 1
               /\ l >= level[ref[c]] => filtered' = filtered]_vars
    /\ \A k \in 1..MaxCalls :
          (calls - filtered >= k) ~> (TotalConsumed >= k)

\* C6 witness: on a freshly created Logger, whose threshold is still INFO,
\* a Debug call and an Info call were made and the appender was invoked
\* once, by the worker, with the INFO message.
C6_Witness ==
    \E i \in Ids :
        /\ sets = 0
        /\ level[i] = INFO
        /\ calls = 2
        /\ filtered = 1
        /\ messageChannel[i] = <<>>
        /\ Len(consumed[i]) = 1
        /\ consumed[i][1].by = "worker"
        /\ consumed[i][1].str.level = "INFO"
        /\ \A c \in Threads : pc[c] = "idle"

\* The worker goroutine of Logger i has been started and has not returned.
Running(i) == wpc[i] \in {"select", "consume", "closing", "warn"}

\* The worker of Logger i has received a stop signal.
Stopped(i) == wpc[i] \in {"closing", "warn", "done"}

\* C7: with one calling thread, a name that is registered to a Logger stays
\* registered to that same Logger until a flush removes it; a GetLogger
\* call that finds the entry returns it and creates and starts nothing; and
\* no Logger ever has more than one worker started for it.
C7_SameInstanceOneWorker ==
    /\ [](\A i \in Ids : started[i] <= 1 /\ (Running(i) => started[i] = 1))
    /\ [][/\ \A n \in Names :
               loggers[n] # Nil => loggers'[n] \in {loggers[n], Nil}
          /\ \A c \in Threads, n \in Names :
               (loggers[n] # Nil /\ GetLoggerLookup(c, n))
               => /\ pc'[c] = "get_return"
                  /\ UNCHANGED <<allocated, started, wpc>>
          /\ \A c \in Threads :
               (pc[c] = "get_return" /\ pc'[c] = "idle")
               => /\ ref'[c] = loggers[gname[c]]
                  /\ UNCHANGED <<loggers, allocated, started, wpc>>]_vars

\* C7 witness: the thread already holds the Logger registered under a name
\* and a repeated GetLogger call with that name has just found the entry.
C7_Witness ==
    /\ pc[Main] = "get_return"
    /\ ref[Main] # Nil
    /\ ref[Main] = loggers[gname[Main]]
    /\ Running(ref[Main])

\* C8: with one calling thread, a Logger whose worker has received the stop
\* signal is no longer registered once the flush has taken its next step;
\* a GetLogger call that finds no entry for its name creates a Logger that
\* did not exist before, with an empty queue, a worker of its own at its
\* select, and threshold INFO, whatever the level of earlier instances.
C8_FreshAfterFlush ==
    /\ [](\A i \in Ids :
            Stopped(i) =>
               \/ \A n \in Names : loggers[n] # i
               \/ \E c \in Threads : pc[c] = "fl_delete" /\ fl[c].logger = i)
    /\ [][/\ \A c \in Threads :
               (pc[c] = "fl_delete" /\ pc'[c] # "fl_delete")
               => loggers'[fl[c].name] = Nil
          /\ \A c \in Threads, n \in Names :
               (loggers[n] = Nil /\ GetLoggerLookup(c, n))
               => pc'[c] = "get_create"
          /\ \A c \in Threads :
               (pc[c] = "get_create" /\ pc'[c] # "get_create")
               => LET i == loggers'[gname[c]]
                  IN /\ i \in Ids \ (1..allocated)
                     /\ lname'[i] = gname[c]
                     /\ level'[i] = INFO
                     /\ messageChannel'[i] = <<>>
                     /\ started[i] = 0 /\ started'[i] = 1
                     /\ wpc'[i] = "select"]_vars

\* C8 witness: a Logger whose level was set to something other than INFO
\* was stopped by a flush, and a later GetLogger with the same name
\* returned a second Logger, registered, with threshold INFO, an empty
\* queue and a worker at its select.
C8_Witness ==
    \E i, j \in Ids :
        /\ i < j
        /\ lname[i] = lname[j]
        /\ wpc[i] = "done"
        /\ level[i] # INFO
        /\ loggers[lname[j]] = j
        /\ ref[Main] = j
        /\ level[j] = INFO
        /\ messageChannel[j] = <<>>
        /\ wpc[j] = "select"

\* C9: with no flush in between, concurrent GetLogger calls create at most
\* one Logger, hence one worker, per name, and all threads that hold a
\* Logger of a name hold the same one.
C9_OneLoggerPerName ==
    /\ \A i, j \in 1..allocated : lname[i] = lname[j] => i = j
    /\ \A c, d \in Threads :
         (ref[c] # Nil /\ ref[d] # Nil /\ lname[ref[c]] = lname[ref[d]])
         => ref[c] = ref[d]

\* C10 as stated: whenever a worker takes the stop signal, the queue of its
\* Logger is empty.
C10_StoppedOnlyWhenEmpty ==
    [][\A i \in Ids :
         (wpc[i] = "select" /\ wpc'[i] = "closing")
         => messageChannel[i] = <<>>]_vars

\* C10, amended: the coordinator decides to send the stop signal to a Logger
\* only in a step in which it finds that Logger's queue empty; a worker takes
\* a stop signal only from a coordinator that did so; and while the signal
\* waits to be taken the queue holds at most the messages enqueued since the
\* coordinator looked, which are still in it when the worker stops.
C10_StopSentOnEmptyQueue ==
    /\ [][/\ \A c \in Threads :
               (pc[c] = "fl_scan" /\ pc'[c] = "fl_send")
               => /\ fl'[c].logger = loggers[fl'[c].name]
                  /\ messageChannel[fl'[c].logger] = <<>>
          /\ \A i \in Ids :
               (wpc[i] = "select" /\ wpc'[i] = "closing")
               => \E c \in Threads :
                     /\ pc[c] = "fl_send" /\ fl[c].logger = i
                     /\ pc'[c] = "fl_delete"]_vars
    /\ [](\A c \in Threads :
            pc[c] = "fl_send"
            => Len(messageChannel[fl[c].logger])
                  <= Len(enqueued[fl[c].logger]) - fl[c].seen)

\* C10 witness: a worker has taken the stop signal while messages, enqueued
\* after the coordinator found the queue empty, were in its queue.
C10_Witness ==
    \E i \in Ids :
        /\ wpc[i] = "warn"
        /\ Len(messageChannel[i]) > 0

\* C11: a FlushAllLoggers call that starts with the registry empty computes
\* a budget of zero, never enters its loop (it stays at the loop condition,
\* with no time elapsed, and sends no stop signal), and returns from there;
\* neither step changes the registry, a Logger, a queue or a worker.
C11_FlushEmptyRegistry ==
    /\ [](\A c \in Threads :
            (InFlush(c) /\ fl[c].timeToWait = 0)
            => /\ pc[c] = "fl_cond"
               /\ fl[c].elapsed = 0)
    /\ [][\A c \in Threads :
            /\ (pc[c] = "idle" /\ pc'[c] = "fl_cond" /\ Registered = {})
               => /\ fl'[c].timeToWait = 0
                  /\ UNCHANGED <<loggers, heapVars, messageChannel,
                                 workerVars, consumed>>
            /\ (pc[c] = "fl_cond" /\ fl[c].timeToWait = 0 /\ pc'[c] # "fl_cond")
               => /\ pc'[c] = "idle"
                  /\ UNCHANGED <<loggers, heapVars, messageChannel,
                                 workerVars, consumed>>]_vars

\* C11 witness: after a flush that stopped a Logger and emptied the
\* registry, a second FlushAllLoggers call is at its loop condition.
C11_Witness ==
    /\ flushes = 2
    /\ pc[Main] = "fl_cond"
    /\ fl[Main].timeToWait = 0
    /\ Registered = {}
    /\ \E i \in Ids : wpc[i] = "done"

\* Logger i was stopped with nothing left behind: its queue is empty, all
\* that was enqueued has been handed to the appender in order, and no
\* "interrupted" warning was made.
Drained(i) ==
    /\ Stopped(i)
    /\ messageChannel[i] = <<>>
    /\ Delivered(i) = enqueued[i]
    /\ \A k \in 1..Len(consumed[i]) : consumed[i][k].str.level # "WARNING"

C13_LoopWithinBudget ==
    [][\A c \in Threads :
         (pc[c] = "fl_cond" /\ pc'[c] = "fl_scan")
         => Sub(fl[c])
               < GracefulLoggerShutdownTimeMc * Cardinality(fl[c].atStart)]_vars

\* C14: String followed by GetLevelByName gives back each of the five
\* levels; GetLevelByName followed by String, on a level name in any
\* letter-casing, gives the upper-case spelling of that name; String gives
\* five different strings; and the levels GetLevelByName gives for TRACE,
\* DEBUG, INFO, WARNING, ERROR are in increasing order.
C14_LevelNameRoundTrip ==
    /\ conv.stage = "back" => conv.back = conv.level
    /\ conv.stage = "spelled" =>
          \A k \in 1..Len(Words) :
             IsCasingOf(conv.name, Words[k]) => conv.str = Text(Words[k])
    /\ \A l1, l2 \in LogLevel : String(l1) = String(l2) => l1 = l2
    /\ \A k \in 1..(Len(Words) - 1) :
          GetLevelByName(Words[k]) < GetLevelByName(Words[k + 1])

\* C14 witness: GetLevelByName and then String were applied to "wArNinG".
C14_Witness ==
    /\ conv.stage = "spelled"
    /\ conv.name = <<"w", "A", "r", "N", "i", "n", "G">>
    /\ conv.level = WARNING
    /\ conv.str = "WARNING"

\* C15: GetLevelByName always returns (the call is never disabled), and on
\* a string that is none of the five level names in any letter-casing it
\* returns TRACE, as it does for the name TRACE itself.
C15_UnknownNameIsTrace ==
    /\ conv.stage \in {"name", "string"} => ENABLED CallGetLevelByName
    /\ (/\ conv.stage \in {"named", "spelled"}
        /\ \A k \in 1..Len(Words) : ~IsCasingOf(conv.name, Words[k]))
       => /\ conv.level = TRACE
          /\ conv.level = GetLevelByName(Words[1])

\* C15 witness: GetLevelByName was applied to "warn".
C15_Witness ==
    /\ conv.stage = "named"
    /\ conv.name = <<"w", "a", "r", "n">>
    /\ conv.level = TRACE

\* The "interrupted" warnings the worker of Logger i has passed to the
\* appender.
Warnings(i) ==
    SelectSeq(consumed[i],
              LAMBDA e : /\ e.by = "worker"
                         /\ e.str.message.text = InterruptedText(0).text)

\* C16 as stated: a worker that has terminated after taking the stop signal
\* with k > 0 messages in its queue has made exactly one warning, which
\* reports k, and one that took it with an empty queue has made none.
C16_WarningReportsCountAtStop ==
    \A i \in Ids :
        wpc[i] = "done"
        => IF stopk[i] > 0
           THEN /\ Len(Warnings(i)) = 1
                /\ Warnings(i)[1].str.message.arg = stopk[i]
           ELSE Warnings(i) = <<>>

\* C16, amended: after taking the stop signal the worker looks at the queue
\* once more; if it is not empty then, the worker passes one WARNING-level
\* message to the Logger's appender, reporting the number of messages in
\* the queue at the moment it counts them, and terminates; otherwise it
\* terminates with no appender invocation. From the stop signal on the
\* worker takes nothing off the queue and delivers no queued message, so the
\* number reported is at least k and a worker stopped with k > 0 always
\* warns; one stopped with k = 0 warns as well when a message is enqueued
\* before it looks at the queue.
C16_WarningReportsCountAtCheck ==
    /\ [][\A i \in Ids :
            /\ (wpc[i] = "closing" /\ wpc'[i] # "closing")
               => /\ wpc'[i] = IF Len(messageChannel[i]) > 0 THEN "warn"
                                                           ELSE "done"
                  /\ consumed'[i] = consumed[i]
            /\ (wpc[i] = "warn" /\ wpc'[i] # "warn")
               => /\ wpc'[i] = "done"
                  /\ consumed'[i] =
                        Append(consumed[i],
                               [app |-> appender[i], by |-> "worker",
                                str |-> [layout |-> formatter[i],
                                         name |-> lname[i],
                                         level |-> "WARNING",
                                         message |-> InterruptedText(
                                                Len(messageChannel[i]))]])
            /\ Stopped(i)
               => /\ IsPrefix(messageChannel[i], messageChannel'[i])
                  /\ Delivered(i)' = Delivered(i)
                  /\ wpc[i] = "warn" \/ Warnings(i)' = Warnings(i)]_vars
    /\ [](\A i \in Ids :
            wpc[i] = "done"
            => /\ Len(Warnings(i)) <= 1
               /\ stopk[i] > 0 => Len(Warnings(i)) = 1
               /\ \A k \in 1..Len(Warnings(i)) :
                     /\ Warnings(i)[k].str.message.arg >= stopk[i]
                     /\ Warnings(i)[k].str.message.arg >= 1
                     /\ Warnings(i)[k].str.message.arg <= Len(messageChannel[i])
                     /\ LET byWorker == SelectSeq(consumed[i],
                                                  LAMBDA e : e.by = "worker")
                        IN Warnings(i)[k] = byWorker[Len(byWorker)])

\* C16 witness: a worker took the stop signal with one message in its queue
\* and terminated after a warning that reports two.
C16_Witness ==
    \E i \in Ids :
        /\ wpc[i] = "done"
        /\ stopk[i] = 1
        /\ Len(Warnings(i)) = 1
        /\ Warnings(i)[1].str.message.arg = 2
        /\ Len(messageChannel[i]) = 2

\* Two Log calls, and no more, have been made, both on Logger i and both at
\* or above its threshold; they have returned and the worker of i has not
\* taken anything off the queue.
TwoCallsBeforeDequeue(i) ==
    /\ calls = 2
    /\ filtered = 0
    /\ \A c \in Threads : pc[c] = "idle"
    /\ \A j \in Ids \ {i} : enqueued[j] = <<>> /\ consumed[j] = <<>>
    /\ wpc[i] = "select"
    /\ messageChannel[i] = enqueued[i]

\* C17: with a queue of capacity 1, once two Log calls at or above the
\* threshold have been made on a Logger before its worker dequeues
\* anything, the queue holds the first message and the appender has
\* received the queue-full diagnostic of the second call; the only
\* invocation that follows, as long as no third call is made, is the
\* worker's delivery of the first message, which a fair worker makes: two
\* invocations in all, the diagnostic first.
C17_OverflowBeforeQueued ==
    /\ [](\A i \in Ids :
            (bufferSize = 1 /\ TwoCallsBeforeDequeue(i))
            => /\ Len(messageChannel[i]) = 1
               /\ consumed[i] = <<QueueFullNotice(i)>>)
    /\ [](\A i \in Ids :
            (/\ bufferSize = 1
             /\ calls = 2
             /\ consumed[i] # <<>>
             /\ consumed[i][1] = QueueFullNotice(i))
            => \/ consumed[i] = <<QueueFullNotice(i)>>
               \/ consumed[i] = <<QueueFullNotice(i),
                                  [app |-> appender[i], by |-> "worker",
                                   str |-> enqueued[i][1]]>>)
    /\ \A i \in Ids :
          (bufferSize = 1 /\ TwoCallsBeforeDequeue(i))
          ~> (calls > 2 \/ Len(consumed[i]) = 2)

\* C17 witness: capacity 1, two calls made before any dequeue: the first
\* message is in the queue and the diagnostic has reached the appender.
C17_Witness ==
    \E i \in Ids :
        /\ bufferSize = 1
        /\ TwoCallsBeforeDequeue(i)
        /\ Len(enqueued[i]) = 1
        /\ consumed[i] = <<QueueFullNotice(i)>>

\* The string the worker of Logger i holds between receive and consume.
InHand(i) == IF wpc[i] = "consume" THEN <<wstr[i]>> ELSE <<>>

\* C18: a SetLevel or SetFormatter call (a setter call that leaves the
\* appender as it is) changes neither the queues nor the registry nor what
\* was delivered; every string is formatted, at its Log call, with the
\* formatter and under the threshold installed then; and what has been
\* delivered, what the worker holds and what is queued are, in this order,
\* exactly the strings that were enqueued: a queued string reaches the
\* appender as it was produced, whatever setters ran in between.
C18_SettersLeaveQueuedMessages ==
    /\ [][(sets' # sets /\ appender' = appender)
          => UNCHANGED <<messageChannel, loggers, workerVars, consumed,
                         enqueued>>]_vars
    /\ [][\A c \in Threads :
            (pc[c] = "idle" /\ pc'[c] = "log_select")
            => /\ lmsg'[c].layout = formatter[ref[c]]
               /\ \E l \in LogLevel :
                     l >= level[ref[c]] /\ lmsg'[c].level = String(l)]_vars
    /\ [](\A i \in Ids :
            Delivered(i) \o InHand(i) \o messageChannel[i] = enqueued[i])

\* C18 witness: a string formatted by the default formatter is still in
\* the queue of a Logger whose formatter has since been set to json.
C18_Witness ==
    \E i \in Ids :
        /\ sets = 1
        /\ formatter[i] = "json"
        /\ messageChannel[i] # <<>>
        /\ messageChannel[i][1].layout = "default"

\* C19: every queued message the worker of a Logger has delivered went to
\* the appender that was installed on the Logger when the message was
\* enqueued.
C19_DeliveredToAppenderAtLog ==
    \A i \in Ids :
        LET d == SelectSeq(consumed[i],
                           LAMBDA e : /\ e.by = "worker"
                                      /\ e.str.message.text \in Messages)
        IN \A k \in 1..Len(d) : d[k].app = installed[i][k]

\* C20: no two threads are sending a stop signal to the same Logger, and no
\* thread is sending one to a Logger whose worker has already taken a stop
\* signal (that worker receives nothing more, so the send would never
\* complete).
C20_OneStopSignalPerLogger ==
    \A c \in Threads :
        pc[c] = "fl_send"
        => /\ ~Stopped(fl[c].logger)
           /\ \A d \in Threads \ {c} :
                 ~(pc[d] = "fl_send" /\ fl[d].logger = fl[c].logger)

\* Logger i was put in the registry and its name has since been deleted.
Deleted(i) == i \in 1..allocated /\ loggers[lname[i]] # i

\* C21 as stated: with one calling thread, in every state every Logger in
\* the registry has a running worker that has not consumed a stop signal,
\* a thread about to delete a name has had its stop signal received, and a
\* Logger whose name was deleted has a worker that received the stop
\* signal.
C21_RegisteredHaveRunningWorker ==
    /\ \A n \in Registered :
          Running(loggers[n]) /\ ~Stopped(loggers[n])
    /\ \A c \in Threads : pc[c] = "fl_delete" => Stopped(fl[c].logger)
    /\ \A i \in Ids : Deleted(i) => Stopped(i)

\* C21, amended: the same, except for the one Logger whose stop signal the
\* flushing thread has just had received and whose name is the next thing
\* it deletes; that Logger is still in the registry and its worker has
\* consumed the stop signal (and may already have returned).
C21_RegisteredRunningUntilStopDelivered ==
    /\ \A n \in Registered :
          \/ Running(loggers[n]) /\ ~Stopped(loggers[n])
          \/ /\ Stopped(loggers[n])
             /\ \E c \in Threads : /\ pc[c] = "fl_delete"
                                   /\ fl[c].name = n
                                   /\ fl[c].logger = loggers[n]
    /\ \A c \in Threads : pc[c] = "fl_delete" => Stopped(fl[c].logger)
    /\ \A i \in Ids : Deleted(i) => Stopped(i)

\* A flush has deleted one name, whose worker has returned, and is about
\* to delete the other, whose worker has taken the stop signal.
C21_Witness ==
    /\ pc[Main] = "fl_delete"
    /\ loggers[fl[Main].name] = fl[Main].logger
    /\ Stopped(fl[Main].logger)
    /\ \E i \in Ids : Deleted(i) /\ wpc[i] = "done"

\* The strings of a sequence of messages.
Strings(q) == {q[k] : k \in 1..Len(q)}

\* C22: a message whose Log call found the queue full is discarded: that
\* call passed the "logger queue is full" diagnostic, at ERROR level, to
\* the appender on the caller's thread, and the formatted message itself
\* has not been enqueued, is in no queue, is held by no worker or caller
\* and has not been passed to an appender, then or at any later time.
C22_OverflowDiscardsMessage ==
    \A d \in dropped :
        /\ d.at \in 1..Len(consumed[d.logger])
        /\ consumed[d.logger][d.at].by = "caller"
        /\ consumed[d.logger][d.at].str.message = QueueFullText
        /\ consumed[d.logger][d.at].str.level = "ERROR"
        /\ d.str.message.text \in Messages
        /\ \A i \in Ids :
              /\ d.str \notin Strings(enqueued[i])
              /\ d.str \notin Strings(messageChannel[i])
              /\ d.str # wstr[i]
              /\ \A k \in 1..Len(consumed[i]) : consumed[i][k].str # d.str
        /\ \A c \in Threads : lmsg[c] # d.str

\* A call overflowed, and afterwards the worker delivered everything that
\* was queued: the queue is empty, the worker is waiting again and every
\* caller has returned.
C22_Witness ==
    /\ dropped # {}
    /\ \A c \in Threads : pc[c] = "idle"
    /\ \E d \in dropped :
          /\ messageChannel[d.logger] = <<>>
          /\ wpc[d.logger] = "select"
          /\ Len(Delivered(d.logger)) = bufferSize

====
